---- MODULE Spec2Model ----
(***************************************************************************)
(* A model of the Pygame Flappy Bird main loop (flappybird.py, game.py,    *)
(* converter.py): the bird, the pipe pairs, the deque of pipes and the     *)
(* three steps of one loop iteration (handle_events, update_world,        *)
(* render_world).                                                          *)
(*                                                                         *)
(* Numbers.  The program computes in floating point.  The model uses      *)
(* fixed point: a time is an integer number of 1/30 ms (so that one frame, *)
(* 1000/60 ms, and CLIMB_DURATION, 333.3 ms, are both integers: 500 and   *)
(* 9999), a position is an integer number of 1/1000 pixel.  The pipes'     *)
(* step, 0.18 * 16.666666666666668, is exactly 3.0 in IEEE double, so     *)
(* pipe positions are exact; the bird's climb steps are rounded to 1/1000  *)
(* pixel from the cosine table below.                                      *)
(***************************************************************************)
EXTENDS Integers, Sequences, FiniteSets, TLC

VARIABLES
    pc,             \* position in the loop body: "events", "update", "render"
    bird,           \* [y, msec_to_climb]  (bird.x is the constant BIRD_X)
    pipes,          \* the deque Game.pipes, head first
    frame_clock,    \* Game.frame_clock
    score,          \* Game.score
    done,           \* Game.done
    paused,         \* Game.paused
    events,         \* history: the events the last pygame.event.get() returned
    popped,         \* history: [x, score_counted] of every pipe popleft() removed
    probe_x,        \* argument of a stand-alone evaluation of PipePair.visible
    probe_visible   \* its result, <<>> before the evaluation and <<result>> after

vars == <<pc, bird, pipes, frame_clock, score, done, paused, events, popped,
          probe_x, probe_visible>>

gameVars == <<pc, bird, pipes, frame_clock, score, done, paused, events, popped>>

----------------------------------------------------------------------------
(* Units *)

\* time units per millisecond (a time is a whole number of 1/30 ms)
TICKS_PER_MSEC == 30
\* position units per pixel
UNITS_PER_PX == 1000

Px(n) == n * UNITS_PER_PX

\* int(v) of a position, as pygame.Rect does: truncation toward zero, in pixels
IntPx(v) == IF v >= 0 THEN v \div UNITS_PER_PX ELSE -((-v) \div UNITS_PER_PX)

----------------------------------------------------------------------------
(* Program constants *)

FPS == 60
TILE == 284
WIN_WIDTH == TILE * 2
WIN_HEIGHT == 512
\* ANIMATION_SPEED = 0.18 px/ms, in position units per time unit
ANIMATION_SPEED == 6

Bird_WIDTH == 32
Bird_HEIGHT == 32
\* Bird.SINK_SPEED = 0.18 px/ms, in position units per time unit
Bird_SINK_SPEED == 6
\* Bird.CLIMB_SPEED = 0.3 px/ms, in position units per time unit
Bird_CLIMB_SPEED == 10
\* Bird.CLIMB_DURATION = 333.3 ms, in time units
Bird_CLIMB_DURATION == 9999
\* the bird's x, first argument of Bird(...) in Game.__init__
BIRD_X == 50
\* the bird's initial msec_to_climb, 2 ms, third argument of Bird(...)
BIRD_INIT_MSEC_TO_CLIMB == 60

PipePair_WIDTH == 80
PipePair_PIECE_HEIGHT == 32
\* PipePair.ADD_INTERVAL = 3000 ms, in time units
PipePair_ADD_INTERVAL == 90000

MS_PER_SEC == 1000

----------------------------------------------------------------------------
(* Bounds of the model *)

\* the loop is followed for this many iterations
MaxFrame == 220
\* quit and pause events arrive only on iterations whose frame_clock is a
\* multiple of this
InputEvery == 90
\* climb events arrive only on iterations whose frame_clock is a multiple of this
ClimbEvery == 30
\* at most this many events are returned by one pygame.event.get()
MaxEvents == 2
\* the stand-alone evaluation of visible takes x this far beyond both edges
ProbeMargin == 40
\* the iterations of SpecEarly, on each of which any event may arrive
EarlyFrames == 6
\* the iteration of SpecFall by which the player has unpaused for good
PauseLimit == 12
\* the iterations SpecFall follows after PauseLimit
FallFrames == 90

----------------------------------------------------------------------------
(* converter.py *)

\* frames_to_msec(frames, fps), in time units
frames_to_msec(frames) == (MS_PER_SEC * TICKS_PER_MSEC * frames) \div FPS

\* msec_to_frames(milliseconds, fps), milliseconds in time units
msec_to_frames(t) == (FPS * t) \div (MS_PER_SEC * TICKS_PER_MSEC)

----------------------------------------------------------------------------
(* Bird *)

\* 1 - cos(frac_climb_done * pi), in units of 1/100000, for
\* frac_climb_done = 1 - t / CLIMB_DURATION, at every value t > 0 that
\* msec_to_climb takes: the initial 2 ms and CLIMB_DURATION less whole frames
OneMinusCos(t) ==
    CASE t = 9999 -> 0
        [] t = 9499 -> 1231
        [] t = 8999 -> 4895
        [] t = 8499 -> 10901
        [] t = 7999 -> 19102
        [] t = 7499 -> 29295
        [] t = 6999 -> 41229
        [] t = 6499 -> 54611
        [] t = 5999 -> 69110
        [] t = 5499 -> 84371
        [] t = 4999 -> 100016
        [] t = 4499 -> 115661
        [] t = 3999 -> 130920
        [] t = 3499 -> 145417
        [] t = 2999 -> 158796
        [] t = 2499 -> 170727
        [] t = 1999 -> 180916
        [] t = 1499 -> 189113
        [] t = 999 -> 195114
        [] t = 499 -> 198773
        [] t = 60 -> 199982

\* the upward step of one climbing frame, rounded to a position unit
ClimbStep(t) ==
    (Bird_CLIMB_SPEED * frames_to_msec(1) * OneMinusCos(t) + 50000) \div 100000

\* Bird.update counting msec_to_climb down on sinking frames too
BirdUpdate_alwaysCountsDown(b) ==
    IF b.msec_to_climb > 0
    THEN [y |-> b.y - ClimbStep(b.msec_to_climb),
          msec_to_climb |-> b.msec_to_climb - frames_to_msec(1)]
    ELSE [y |-> b.y + Bird_SINK_SPEED * frames_to_msec(1),
          msec_to_climb |-> b.msec_to_climb - frames_to_msec(1)]

\* Bird.update sinking on every frame, `else:` left out
BirdUpdate_sinksWhileClimbing(b) ==
    IF b.msec_to_climb > 0
    THEN [y |-> b.y - ClimbStep(b.msec_to_climb)
                    + Bird_SINK_SPEED * frames_to_msec(1),
          msec_to_climb |-> b.msec_to_climb - frames_to_msec(1)]
    ELSE [b EXCEPT !.y = @ + Bird_SINK_SPEED * frames_to_msec(1)]

\* Bird.update without the sinking branch
BirdUpdate_noSink(b) ==
    IF b.msec_to_climb > 0
    THEN [y |-> b.y - ClimbStep(b.msec_to_climb),
          msec_to_climb |-> b.msec_to_climb - frames_to_msec(1)]
    ELSE b

\* Bird.update(delta_frames = 1)
BirdUpdate(b) ==
    IF b.msec_to_climb > 0
    THEN [y |-> b.y - ClimbStep(b.msec_to_climb),
          msec_to_climb |-> b.msec_to_climb - frames_to_msec(1)]
    ELSE [b EXCEPT !.y = @ + Bird_SINK_SPEED * frames_to_msec(1)]

----------------------------------------------------------------------------
(* PipePair *)

\* total_pipe_body_pieces of PipePair.__init__
total_pipe_body_pieces ==
    (WIN_HEIGHT - 3 * Bird_HEIGHT - 3 * PipePair_PIECE_HEIGHT)
        \div PipePair_PIECE_HEIGHT

\* PipePair.__init__ without `compensate for added end pieces`
PipePairInit_noEndPieces(draw) ==
    [x |-> Px(WIN_WIDTH - 1),
     score_counted |-> FALSE,
     bottom_pieces |-> draw,
     top_pieces |-> total_pipe_body_pieces - draw]

\* PipePair.__init__ without `self.top_pieces += 1`
PipePairInit_oneEndPiece(draw) ==
    [x |-> Px(WIN_WIDTH - 1),
     score_counted |-> FALSE,
     bottom_pieces |-> draw + 1,
     top_pieces |-> total_pipe_body_pieces - draw]

\* PipePair.__init__, `draw` being the value randint(1, total) returns
PipePairInit(draw) ==
    [x |-> Px(WIN_WIDTH - 1),
     score_counted |-> FALSE,
     bottom_pieces |-> draw + 1,
     top_pieces |-> (total_pipe_body_pieces - draw) + 1]

top_height_px(p) == p.top_pieces * PipePair_PIECE_HEIGHT

bottom_height_px(p) == p.bottom_pieces * PipePair_PIECE_HEIGHT

\* visible without the pipe's width: 0 < self.x < WIN_WIDTH
visible_noWidth(x) == 0 < x /\ x < Px(WIN_WIDTH)

\* visible with the left edge included
visible_inclusive(x) == Px(-PipePair_WIDTH) <= x /\ x < Px(WIN_WIDTH)

\* PipePair.visible, of a position x
visible(x) == Px(-PipePair_WIDTH) < x /\ x < Px(WIN_WIDTH)

\* PipePair.update(delta_frames = 1)
PipeUpdate(p) == [p EXCEPT !.x = @ - ANIMATION_SPEED * frames_to_msec(1)]

\* Whether the bird's rect meets the drawn part of the pipe pair's image (the
\* top pipe or the bottom pipe).  collide_mask compares the two bitmasks,
\* which come from image files: outside this overlap it finds nothing, inside
\* it the answer depends on the images' pixels.
MayCollide(p, b) ==
    LET px == IntPx(p.x)
        by == IntPx(b.y)
    IN  /\ px < BIRD_X + Bird_WIDTH
        /\ BIRD_X < px + PipePair_WIDTH
        /\ \/ by < top_height_px(p)
           \/ by + Bird_HEIGHT > WIN_HEIGHT - bottom_height_px(p)

----------------------------------------------------------------------------
(* Game *)

Events == {"quit", "pause", "climb"}

EventBatches == UNION {[1..n -> Events] : n \in 0..MaxEvents}

\* the iterations on which the player's events arrive
MayArrive(ev, clock) ==
    IF ev = "climb" THEN clock % ClimbEvery = 0 ELSE clock % InputEvery = 0

\* the for loop without `break` after a quit event
RECURSIVE handle_from_noBreak(_, _, _)
handle_from_noBreak(e, i, s) ==
    IF i > Len(e) THEN s
    ELSE IF e[i] = "quit"
         THEN handle_from_noBreak(e, i + 1, [s EXCEPT !.done = TRUE])
    ELSE IF e[i] = "pause"
         THEN handle_from_noBreak(e, i + 1, [s EXCEPT !.paused = ~s.paused])
    ELSE handle_from_noBreak(e, i + 1,
                             [s EXCEPT !.msec_to_climb = Bird_CLIMB_DURATION])

\* the for loop starting a climb only when none is under way
RECURSIVE handle_from_noRestart(_, _, _)
handle_from_noRestart(e, i, s) ==
    IF i > Len(e) THEN s
    ELSE IF e[i] = "quit" THEN [s EXCEPT !.done = TRUE]
    ELSE IF e[i] = "pause"
         THEN handle_from_noRestart(e, i + 1, [s EXCEPT !.paused = ~s.paused])
    ELSE handle_from_noRestart(e, i + 1,
             [s EXCEPT !.msec_to_climb =
                  IF @ > 0 THEN @ ELSE Bird_CLIMB_DURATION])

\* the for loop of Game.handle_events over the events e[i..], on
\* s = [done, paused, msec_to_climb]
RECURSIVE handle_from(_, _, _)
handle_from(e, i, s) ==
    IF i > Len(e) THEN s
    ELSE IF e[i] = "quit" THEN [s EXCEPT !.done = TRUE]
    ELSE IF e[i] = "pause"
         THEN handle_from(e, i + 1, [s EXCEPT !.paused = ~s.paused])
    ELSE handle_from(e, i + 1, [s EXCEPT !.msec_to_climb = Bird_CLIMB_DURATION])

\* the test of the window's top alone
OutOfBounds_topOnly(y) == 0 >= y

\* the bird leaves the window at the top or at the bottom
OutOfBounds(y) == 0 >= y \/ y >= Px(WIN_HEIGHT - Bird_HEIGHT)

\* the spawn test without `self.paused or`
SpawnDue_whilePaused(isPaused, clock) ==
    ~(clock % msec_to_frames(PipePair_ADD_INTERVAL) # 0)

\* the spawn test made on the count of frames drawn, one more than frame_clock
SpawnDue_offByOne(isPaused, clock) ==
    ~(isPaused \/ (clock + 1) % msec_to_frames(PipePair_ADD_INTERVAL) # 0)

\* the spawn test at the head of update_world
SpawnDue(isPaused, clock) ==
    ~(isPaused \/ clock % msec_to_frames(PipePair_ADD_INTERVAL) # 0)

\* the while loop popping while the head is visible
RECURSIVE PopCount_inverted(_)
PopCount_inverted(q) ==
    IF q # <<>> /\ visible(Head(q).x) THEN 1 + PopCount_inverted(Tail(q)) ELSE 0

\* the number of pipes the while loop of update_world pops from q
RECURSIVE PopCount(_)
PopCount(q) ==
    IF q # <<>> /\ ~visible(Head(q).x) THEN 1 + PopCount(Tail(q)) ELSE 0

\* the deque after the while loop of update_world
Cull(q) == SubSeq(q, PopCount(q) + 1, Len(q))

\* what the while loop of update_world removes from q, as the history keeps it
Popped(q) == [i \in 1..PopCount(q) |->
                [x |-> q[i].x, score_counted |-> q[i].score_counted]]

MoveAll(q) == [i \in 1..Len(q) |-> PipeUpdate(q[i])]

\* the scoring test without `and not p.score_counted`
Passed_noFlag(p) == p.x + Px(PipePair_WIDTH) < Px(BIRD_X)

\* a pipe is counted by the scoring loop
Passed(p) == p.x + Px(PipePair_WIDTH) < Px(BIRD_X) /\ ~p.score_counted

ScoreAll(q) == [i \in 1..Len(q) |->
                  IF Passed(q[i]) THEN [q[i] EXCEPT !.score_counted = TRUE]
                  ELSE q[i]]

ScoreGain(q) == Cardinality({i \in 1..Len(q) : Passed(q[i])})

Init ==
    /\ pc = "events"
    /\ bird = [y |-> Px((WIN_HEIGHT \div 2) - (Bird_HEIGHT \div 2)),
               msec_to_climb |-> BIRD_INIT_MSEC_TO_CLIMB]
    /\ pipes = <<>>
    /\ frame_clock = 0
    /\ score = 0
    /\ done = FALSE
    /\ paused = FALSE
    /\ events = <<>>
    /\ popped = <<>>
    /\ probe_x = 0
    /\ probe_visible = <<>>

\* HandleEvents without the loop's `while not game.is_ended()` test
HandleEvents_noLoopTest ==
    /\ pc = "events"
    /\ frame_clock < MaxFrame
    /\ \E e \in EventBatches :
         /\ \A i \in 1..Len(e) : MayArrive(e[i], frame_clock)
         /\ LET s == handle_from(e, 1, [done |-> done, paused |-> paused,
                                         msec_to_climb |-> bird.msec_to_climb])
            IN  /\ done' = s.done
                /\ paused' = s.paused
                /\ bird' = [bird EXCEPT !.msec_to_climb = s.msec_to_climb]
         /\ events' = e
    /\ pc' = "update"
    /\ UNCHANGED <<pipes, frame_clock, score, popped, probe_x, probe_visible>>

\* `while not game.is_ended(): game.handle_events()`
HandleEvents ==
    /\ pc = "events"
    /\ ~done
    /\ frame_clock < MaxFrame
    /\ \E e \in EventBatches :
         /\ \A i \in 1..Len(e) : MayArrive(e[i], frame_clock)
         /\ LET s == handle_from(e, 1, [done |-> done, paused |-> paused,
                                         msec_to_climb |-> bird.msec_to_climb])
            IN  /\ done' = s.done
                /\ paused' = s.paused
                /\ bird' = [bird EXCEPT !.msec_to_climb = s.msec_to_climb]
         /\ events' = e
    /\ pc' = "update"
    /\ UNCHANGED <<pipes, frame_clock, score, popped, probe_x, probe_visible>>

\* update_world returning as soon as it has set done
UpdateWorld_stops ==
    /\ pc = "update"
    /\ \E draw \in 1..total_pipe_body_pieces, hit \in BOOLEAN :
         LET spawned == IF SpawnDue(paused, frame_clock)
                        THEN Append(pipes, PipePairInit(draw))
                        ELSE pipes
         IN  IF ~paused
             THEN LET pipe_collision ==
                          hit /\ \E i \in 1..Len(spawned) : MayCollide(spawned[i], bird)
                      kept == Cull(spawned)
                      moved == MoveAll(kept)
                  IN  IF pipe_collision \/ OutOfBounds(bird.y)
                      THEN /\ done' = TRUE
                           /\ pipes' = spawned
                           /\ UNCHANGED <<popped, bird, score>>
                      ELSE /\ done' = done
                           /\ popped' = popped \o Popped(spawned)
                           /\ bird' = BirdUpdate(bird)
                           /\ score' = score + ScoreGain(moved)
                           /\ pipes' = ScoreAll(moved)
             ELSE /\ pipes' = spawned
                  /\ UNCHANGED <<done, popped, bird, score>>
    /\ pc' = "render"
    /\ UNCHANGED <<frame_clock, paused, events, probe_x, probe_visible>>

\* Game.update_world with `self.pipes.appendleft(pp)`
UpdateWorld_appendleft ==
    /\ pc = "update"
    /\ \E draw \in 1..total_pipe_body_pieces, hit \in BOOLEAN :
         LET spawned == IF SpawnDue(paused, frame_clock)
                        THEN <<PipePairInit(draw)>> \o pipes
                        ELSE pipes
         IN  IF ~paused
             THEN LET pipe_collision ==
                          hit /\ \E i \in 1..Len(spawned) : MayCollide(spawned[i], bird)
                      kept == Cull(spawned)
                      moved == MoveAll(kept)
                  IN  /\ done' = (done \/ pipe_collision \/ OutOfBounds(bird.y))
                      /\ popped' = popped \o Popped(spawned)
                      /\ bird' = BirdUpdate(bird)
                      /\ score' = score + ScoreGain(moved)
                      /\ pipes' = ScoreAll(moved)
             ELSE /\ pipes' = spawned
                  /\ UNCHANGED <<done, popped, bird, score>>
    /\ pc' = "render"
    /\ UNCHANGED <<frame_clock, paused, events, probe_x, probe_visible>>

\* Game.update_world
UpdateWorld ==
    /\ pc = "update"
    /\ \E draw \in 1..total_pipe_body_pieces, hit \in BOOLEAN :
         LET spawned == IF SpawnDue(paused, frame_clock)
                        THEN Append(pipes, PipePairInit(draw))
                        ELSE pipes
         IN  IF ~paused
             THEN LET pipe_collision ==
                          hit /\ \E i \in 1..Len(spawned) : MayCollide(spawned[i], bird)
                      kept == Cull(spawned)
                      moved == MoveAll(kept)
                  IN  /\ done' = (done \/ pipe_collision \/ OutOfBounds(bird.y))
                      /\ popped' = popped \o Popped(spawned)
                      /\ bird' = BirdUpdate(bird)
                      /\ score' = score + ScoreGain(moved)
                      /\ pipes' = ScoreAll(moved)
             ELSE /\ pipes' = spawned
                  /\ UNCHANGED <<done, popped, bird, score>>
    /\ pc' = "render"
    /\ UNCHANGED <<frame_clock, paused, events, probe_x, probe_visible>>

\* Game.render_world
RenderWorld ==
    /\ pc = "render"
    /\ frame_clock' = frame_clock + 1
    /\ pc' = "events"
    /\ UNCHANGED <<bird, pipes, score, done, paused, events, popped,
                   probe_x, probe_visible>>

Next == HandleEvents \/ UpdateWorld \/ RenderWorld

Spec == Init /\ [][Next]_vars

----------------------------------------------------------------------------
(* PipePair.visible on its own: x is drawn around both edges of the window *)

ProbeXs == {Px(n) : n \in (-PipePair_WIDTH - ProbeMargin)..(WIN_WIDTH + ProbeMargin)}

InitVisible ==
    /\ pc = "events"
    /\ bird = [y |-> Px((WIN_HEIGHT \div 2) - (Bird_HEIGHT \div 2)),
               msec_to_climb |-> BIRD_INIT_MSEC_TO_CLIMB]
    /\ pipes = <<>>
    /\ frame_clock = 0
    /\ score = 0
    /\ done = FALSE
    /\ paused = FALSE
    /\ events = <<>>
    /\ popped = <<>>
    /\ probe_x \in ProbeXs
    /\ probe_visible = <<>>

EvalVisible ==
    /\ probe_visible = <<>>
    /\ probe_visible' = <<visible(probe_x)>>
    /\ UNCHANGED <<gameVars, probe_x>>

NextVisible == EvalVisible

SpecVisible == InitVisible /\ [][NextVisible]_vars

----------------------------------------------------------------------------
(* The first iterations of the main loop, the player's events arriving on
   any of them *)

\* `while not game.is_ended(): game.handle_events()`, any batch of events
HandleEventsEarly ==
    /\ pc = "events"
    /\ ~done
    /\ frame_clock < EarlyFrames
    /\ \E e \in EventBatches :
         /\ LET s == handle_from(e, 1, [done |-> done, paused |-> paused,
                                         msec_to_climb |-> bird.msec_to_climb])
            IN  /\ done' = s.done
                /\ paused' = s.paused
                /\ bird' = [bird EXCEPT !.msec_to_climb = s.msec_to_climb]
         /\ events' = e
    /\ pc' = "update"
    /\ UNCHANGED <<pipes, frame_clock, score, popped, probe_x, probe_visible>>

NextEarly == HandleEventsEarly \/ UpdateWorld \/ RenderWorld

SpecEarly == Init /\ [][NextEarly]_vars

----------------------------------------------------------------------------
(* The main loop with a player who never issues a climb or a quit event and
   does not leave the game paused: pause keys arrive on any iteration before
   PauseLimit, and from PauseLimit on every batch leaves the game running *)

PauseBatches == UNION {[1..n -> {"pause"}] : n \in 0..MaxEvents}

\* `while not game.is_ended(): game.handle_events()`, pause keys only
HandleEventsNoClimb ==
    /\ pc = "events"
    /\ ~done
    /\ frame_clock < PauseLimit + FallFrames
    /\ \E e \in PauseBatches :
         /\ LET s == handle_from(e, 1, [done |-> done, paused |-> paused,
                                         msec_to_climb |-> bird.msec_to_climb])
            IN  /\ frame_clock >= PauseLimit => ~s.paused
                /\ done' = s.done
                /\ paused' = s.paused
                /\ bird' = [bird EXCEPT !.msec_to_climb = s.msec_to_climb]
         /\ events' = e
    /\ pc' = "update"
    /\ UNCHANGED <<pipes, frame_clock, score, popped, probe_x, probe_visible>>

NextFall == HandleEventsNoClimb \/ UpdateWorld \/ RenderWorld

\* the loop of main() keeps iterating for as long as the game has not ended
SpecFall == Init /\ [][NextFall]_vars /\ WF_vars(NextFall)

----------------------------------------------------------------------------
(* Properties *)

\* one frame's step of a pipe, 3 px
PipeStep == ANIMATION_SPEED * frames_to_msec(1)

\* C1: the frame counter advances only while the game is not paused: a
\* render_world executed while paused leaves frame_clock as it was.
C1_FrameClockStallsWhilePaused ==
    [][(pc = "render" /\ paused) => frame_clock' = frame_clock]_vars

\* an unpaused update_world that sets done
Detects == pc = "update" /\ ~paused /\ ~done /\ done'

\* C2 as stated: on an unpaused tick that detects the end of the game nothing
\* else changes: no pipe is culled or moved, the bird and the score stay, and
\* the render_world after it does not count the frame (on an iteration where
\* no quit event arrives, done at render_world was set by update_world).
C2_NothingElseMutated ==
    [][/\ Detects =>
            /\ Len(pipes') >= Len(pipes)
            /\ \A i \in 1..Len(pipes) : pipes'[i] = pipes[i]
            /\ bird' = bird
            /\ score' = score
       /\ (pc = "render" /\ done /\ ~paused /\ frame_clock % InputEvery # 0)
              => frame_clock' = frame_clock]_vars

\* C2, amended: on an unpaused tick that detects the end of the game, done is
\* set and the tick goes on as any unpaused tick: every pipe left in the deque
\* is 3 px to the left of where it was (or of the spawn position), the bird
\* is updated (a climbing bird's timer runs one frame and it does not sink, any
\* other bird sinks 3 px), and the render_world that follows counts the frame.
C2_TickGoesOn ==
    [][/\ Detects =>
            /\ done'
            /\ \A j \in 1..Len(pipes') :
                 \/ pipes'[j].x = Px(WIN_WIDTH - 1) - PipeStep
                 \/ \E i \in 1..Len(pipes) : pipes'[j].x = pipes[i].x - PipeStep
            /\ IF bird.msec_to_climb > 0
               THEN /\ bird'.msec_to_climb = bird.msec_to_climb - frames_to_msec(1)
                    /\ bird'.y <= bird.y
               ELSE /\ bird'.msec_to_climb = bird.msec_to_climb
                    /\ bird'.y = bird.y + Bird_SINK_SPEED * frames_to_msec(1)
       /\ (pc = "render" /\ done /\ ~paused) => frame_clock' = frame_clock + 1]_vars

\* update_world has just detected the end (no quit event arrives on this
\* iteration) with a pipe in the deque, and has moved pipe and bird
C2_Witness ==
    /\ pc = "render" /\ done /\ ~paused
    /\ frame_clock % InputEvery # 0
    /\ pipes # <<>>

\* C3 as stated: once done is true, the bird, the pipes and the score never
\* change again.
C3_FrozenOnceDone ==
    [][done => (bird.y' = bird.y /\ pipes' = pipes /\ score' = score)]_vars

\* C3, amended: done is never reset and no iteration starts once done is true
\* at the loop's test; the iteration in which done is set is still finished
\* (a quit event is followed by that iteration's update_world and
\* render_world), and render_world changes neither bird, pipes nor score.
C3_NoIterationOnceDone ==
    [][/\ done => done'
       /\ ~(done /\ pc = "events")
       /\ (done /\ pc = "render") =>
              (bird' = bird /\ pipes' = pipes /\ score' = score)]_vars

\* the loop has stopped after a quit event (the bird is inside the window and
\* no pipe is near it)
C3_Witness ==
    /\ done /\ pc = "events" /\ frame_clock > 0
    /\ ~OutOfBounds(bird.y - Bird_SINK_SPEED * frames_to_msec(1))
    /\ \A i \in 1..Len(pipes) : pipes[i].x > Px(BIRD_X + Bird_WIDTH)

\* the gap between the top pipe's bottom and the bottom pipe's top, in pixels
GapPx(p) == WIN_HEIGHT - top_height_px(p) - bottom_height_px(p)

\* C4 as stated: every pipe pair's gap is exactly 3 * Bird.HEIGHT (96 px).
C4_GapIsThreeBirds ==
    \A i \in 1..Len(pipes) : GapPx(pipes[i]) = 3 * Bird_HEIGHT

\* What the constructor builds instead: whatever randint draws, the gap is
\* 3 * Bird.HEIGHT + PIECE_HEIGHT (128 px): of the room it sets aside for
\* `2 end pieces + 1 body piece`, only the two end pieces are added back.
GapIsThreeBirdsAndAPiece ==
    \A i \in 1..Len(pipes) :
        GapPx(pipes[i]) = 3 * Bird_HEIGHT + PipePair_PIECE_HEIGHT

\* two pipes in the deque, built from the largest and the smallest draw
BothExtremeDraws ==
    /\ Len(pipes) = 2
    /\ pipes[1].bottom_pieces = total_pipe_body_pieces + 1
    /\ pipes[2].bottom_pieces = 2

\* C5 as stated: a pipe at x = -81 is not visible and a pipe at x = -80 is.
C5_VisibleAtMinus80 ==
    /\ (probe_x = Px(-81) /\ probe_visible # <<>>) => probe_visible = <<FALSE>>
    /\ (probe_x = Px(-80) /\ probe_visible # <<>>) => probe_visible = <<TRUE>>

\* C5, amended: a pipe at x = -81 is not visible, and neither is a pipe at
\* x = -80 (the bound -WIDTH is exclusive); a pipe at x = -79 is visible.
C5_VisibleFromMinus79 ==
    /\ (probe_x = Px(-81) /\ probe_visible # <<>>) => probe_visible = <<FALSE>>
    /\ (probe_x = Px(-80) /\ probe_visible # <<>>) => probe_visible = <<FALSE>>
    /\ (probe_x = Px(-79) /\ probe_visible # <<>>) => probe_visible = <<TRUE>>

\* visible has been evaluated at x = -80
C5_Witness == probe_x = Px(-80) /\ probe_visible = <<FALSE>>

\* -WIDTH < x < WIN_WIDTH
InWindow(x) == Px(-PipePair_WIDTH) < x /\ x < Px(WIN_WIDTH)

\* C6: the culling loop never removes a pipe that is visible, and right after
\* it every pipe left in the deque is visible (on an unpaused tick the pipes
\* found at render_world are those the loop left, each moved one step).
C6_CullKeepsVisible ==
    /\ \A i \in 1..Len(popped) : ~InWindow(popped[i].x)
    /\ (pc = "render" /\ ~paused) =>
           \A i \in 1..Len(pipes) : InWindow(pipes[i].x + PipeStep)

\* a tick has culled the head and left a pipe in the deque
C6_Witness == popped # <<>> /\ pc = "render" /\ ~paused /\ pipes # <<>>

\* the score is the number of pipes, in the deque or removed from it, whose
\* score_counted is set
ScoreMatches ==
    score = Cardinality({i \in 1..Len(pipes) : pipes[i].score_counted})
          + Cardinality({i \in 1..Len(popped) : popped[i].score_counted})

\* C7: every pipe is counted at most once: the score never decreases and is
\* always the number of pipes spawned so far whose score_counted is set.
C7_ScoredOnce == []ScoreMatches /\ [][score' >= score]_vars

\* a counted pipe that was already past the bird on the tick before
C7_Witness ==
    \E i \in 1..Len(pipes) :
        /\ pipes[i].score_counted
        /\ pipes[i].x + PipeStep + Px(PipePair_WIDTH) < Px(BIRD_X)

\* C8: an unpaused tick that starts with the bird at y <= 0 or at
\* y >= WIN_HEIGHT - Bird.HEIGHT (480) ends with done set, wherever the pipes
\* are.
C8_OutOfWindowEnds ==
    [][(/\ pc = "update" /\ ~paused
        /\ (bird.y <= 0 \/ bird.y >= Px(WIN_HEIGHT - Bird_HEIGHT))) => done']_vars

\* after an unpaused tick that the bird, still climbing, started at y <= 0
C8_Witness ==
    /\ pc = "render" /\ ~paused /\ done
    /\ bird.msec_to_climb > 0
    /\ bird.y + ClimbStep(bird.msec_to_climb + frames_to_msec(1)) <= 0

\* after an unpaused tick that the sinking bird started at y >= 480
C8_WitnessBottom ==
    /\ pc = "render" /\ ~paused /\ done
    /\ bird.msec_to_climb = BIRD_INIT_MSEC_TO_CLIMB - frames_to_msec(1)
    /\ frame_clock > 1
    /\ bird.y - Bird_SINK_SPEED * frames_to_msec(1) >= Px(WIN_HEIGHT - Bird_HEIGHT)

\* C9: a tick executed while paused changes nothing in the world: no pipe is
\* spawned, culled or moved, the bird and the score stay, and done is not set
\* even if the bird is out of the window or over a pipe.
C9_PausedTickChangesNothing ==
    [][(pc = "update" /\ paused) =>
           (pipes' = pipes /\ bird' = bird /\ score' = score /\ done' = done)]_vars

\* after a paused tick with the bird over a pipe and the game not ended
C9_Witness ==
    /\ pc = "render" /\ paused /\ ~done
    /\ \E i \in 1..Len(pipes) : MayCollide(pipes[i], bird)

\* update_world has appended a pipe: the deque's tail is a new pipe, one step
\* from the spawn position
Appended ==
    /\ pipes' # <<>>
    /\ pipes' # pipes
    /\ pipes'[Len(pipes')].x = Px(WIN_WIDTH - 1) - PipeStep

\* no tick has been paused since the first frame: the pipe spawned at
\* frame_clock = 0 has moved on every tick
NeverPaused ==
    pipes # <<>> /\ pipes[1].x = Px(WIN_WIDTH - 1) - frame_clock * PipeStep

\* C10: a tick appends a pipe to the tail exactly when the game is not paused
\* and frame_clock mod 180 = 0; in a run that is never paused the first pipe is
\* spawned at frame_clock = 0, the second at frame_clock = 180 and none in
\* between.
C10_SpawnEvery180 ==
    /\ [][pc = "update" => (Appended <=> (~paused /\ frame_clock % 180 = 0))]_vars
    /\ [](/\ (pc = "events" /\ frame_clock \in 1..180 /\ NeverPaused)
              => Len(pipes) = 1
          /\ (pc = "events" /\ frame_clock = 181 /\ NeverPaused)
              => (Len(pipes) = 2 /\ pipes[2].x = Px(WIN_WIDTH - 1) - PipeStep))

\* a run never paused, after the tick of frame_clock = 180
C10_Witness ==
    pc = "events" /\ frame_clock = 181 /\ NeverPaused /\ Len(pipes) = 2

\* C11 as stated: in every reachable state 0 <= msec_to_climb and
\* msec_to_climb <= CLIMB_DURATION.
C11_TimerInRange ==
    0 <= bird.msec_to_climb /\ bird.msec_to_climb <= Bird_CLIMB_DURATION

\* C11, amended: in every reachable state msec_to_climb is at most
\* CLIMB_DURATION and more than minus one frame's time: the last frame of a
\* climb takes a whole frame's time off a timer that holds less than that, and
\* a timer that is not positive is left alone.
C11_TimerUndershootsByLessThanAFrame ==
    /\ -frames_to_msec(1) < bird.msec_to_climb
    /\ bird.msec_to_climb <= Bird_CLIMB_DURATION

\* a climb started by the player has run to its end and the bird has sunk since
C11_Witness ==
    /\ bird.msec_to_climb = Bird_CLIMB_DURATION - 20 * frames_to_msec(1)
    /\ bird.msec_to_climb < 0
    /\ pc = "update" /\ events = <<>> /\ frame_clock >= 2 * ClimbEvery

\* C12: the deque holds the pipes oldest first, and every pipe is strictly to
\* the left of every pipe appended after it, whatever the pausing.
C12_OlderPipesAreFurtherLeft ==
    \A i, j \in 1..Len(pipes) : i < j => pipes[i].x < pipes[j].x

\* two pipes whose spawns were separated by paused iterations
C12_Witness ==
    /\ Len(pipes) = 2
    /\ pipes[1].x < pipes[2].x
    /\ pipes[2].x - pipes[1].x < 180 * PipeStep

\* C13: every pipe pair built has at least one top piece and at least one
\* bottom piece.
C13_AtLeastOnePieceEach ==
    \A i \in 1..Len(pipes) : pipes[i].top_pieces >= 1 /\ pipes[i].bottom_pieces >= 1

\* a pipe pair built from the largest draw, which leaves the top pipe no body
\* piece
C13_Witness ==
    \E i \in 1..Len(pipes) :
        /\ pipes[i].bottom_pieces = total_pipe_body_pieces + 1
        /\ pipes[i].top_pieces = 1

\* C14 as stated: top_pieces + bottom_pieces = total_pipe_body_pieces for
\* every pipe pair, whatever the draw.
C14_PiecesSumToTotal ==
    \A i \in 1..Len(pipes) :
        pipes[i].top_pieces + pipes[i].bottom_pieces = total_pipe_body_pieces

\* C14, amended: top_pieces + bottom_pieces = total_pipe_body_pieces + 2 for
\* every pipe pair, whatever the draw: the body pieces are divided between
\* the two pipes and each pipe's count then takes in its end piece.
C14_PiecesSumToTotalPlusEndPieces ==
    /\ total_pipe_body_pieces =
           (WIN_HEIGHT - 3 * Bird_HEIGHT - 3 * PipePair_PIECE_HEIGHT)
               \div PipePair_PIECE_HEIGHT
    /\ \A i \in 1..Len(pipes) :
           pipes[i].top_pieces + pipes[i].bottom_pieces
               = total_pipe_body_pieces + 2

\* two pipe pairs in the deque built from different draws
C14_Witness ==
    /\ Len(pipes) = 2
    /\ pipes[1].bottom_pieces # pipes[2].bottom_pieces

\* the for loop of handle_events reaches a climb event of the batch just
\* fetched: no quit event comes before it
ClimbHandled ==
    \E i \in 1..Len(events') :
        /\ events'[i] = "climb"
        /\ \A j \in 1..(i - 1) : events'[j] # "quit"

\* C15: a climb event sets msec_to_climb to CLIMB_DURATION whether or not the
\* game is paused and whatever the timer holds (a climb under way is
\* restarted); handling events never moves the bird, and while the game is
\* paused a tick changes neither y nor the timer, so a climb that arrived
\* while paused starts from the full duration once the game is unpaused.
C15_ClimbRestartsTimer ==
    [][/\ (pc = "events" /\ ClimbHandled)
           => bird'.msec_to_climb = Bird_CLIMB_DURATION
       /\ pc = "events" => bird'.y = bird.y
       /\ (pc # "events" /\ paused) => bird' = bird]_vars

\* a climb event arrived while the game was paused and an earlier climb was
\* under way (the bird is above the height the initial climb leaves it at);
\* the paused tick that followed has left the restarted timer whole
C15_Witness ==
    /\ pc = "render" /\ paused
    /\ events = <<"climb">>
    /\ bird.msec_to_climb = Bird_CLIMB_DURATION
    /\ bird.y < Px(240) - ClimbStep(BIRD_INIT_MSEC_TO_CLIMB)

\* C16: on every frame of a climb the bird's y does not increase, and on every
\* frame on which no climb is under way y increases by exactly
\* SINK_SPEED * frames_to_msec(1), 3 px.
C16_ClimbNeverLowersThenSinks ==
    [][(pc = "update" /\ ~paused)
          => IF bird.msec_to_climb > 0
             THEN bird'.y <= bird.y
             ELSE /\ bird'.y = bird.y + Bird_SINK_SPEED * frames_to_msec(1)
                  /\ bird'.y = bird.y + Px(3)]_vars

\* a climb started at frame 0 with the full duration has lasted its 20 frames
\* and the next frame has sunk the bird
C16_Witness ==
    /\ pc = "render" /\ frame_clock = 20 /\ ~paused
    /\ bird.msec_to_climb = Bird_CLIMB_DURATION - 20 * frames_to_msec(1)
    /\ bird.msec_to_climb <= 0

\* the events of batch e that come before its first quit event
RECURSIVE BeforeQuit(_)
BeforeQuit(e) ==
    IF e = <<>> \/ Head(e) = "quit" THEN <<>>
    ELSE <<Head(e)>> \o BeforeQuit(Tail(e))

\* the number of events ev in batch e
Count(e, ev) == Cardinality({i \in 1..Len(e) : e[i] = ev})

\* C17: when a batch holds a quit event, only the events before the first quit
\* take effect: paused is toggled once for each pause key before it and not
\* for those after it, and the timer is restarted only by a climb event before
\* it; once done is true no step toggles paused or restarts the timer.
C17_NothingHandledAfterQuit ==
    [][/\ (pc = "events" /\ Count(events', "quit") > 0)
           => LET pre == BeforeQuit(events')
              IN  /\ done'
                  /\ paused' = (paused # (Count(pre, "pause") % 2 = 1))
                  /\ bird'.msec_to_climb =
                         IF Count(pre, "climb") > 0
                         THEN Bird_CLIMB_DURATION ELSE bird.msec_to_climb
       /\ done => /\ paused' = paused
                  /\ bird'.msec_to_climb <= bird.msec_to_climb]_vars

\* a batch with a pause key after a quit event has been handled
C17_Witness ==
    /\ pc = "update" /\ done /\ ~paused
    /\ events = <<"quit", "pause">>

\* C18: any two pipes spawned one after the other and both in the deque are
\* 540 px apart (3 px a frame for 180 frames), whatever the pausing.
C18_SpacingIs540 ==
    \A i \in 1..(Len(pipes) - 1) : pipes[i + 1].x - pipes[i].x = Px(540)

\* in a run that is never paused two consecutive pipes are 540 px apart
SpacingIs540WhenNeverPaused ==
    (NeverPaused /\ Len(pipes) = 2) => pipes[2].x - pipes[1].x = Px(540)

\* C19: every pipe the culling loop has popped had score_counted set.
C19_CulledPipesWereScored ==
    \A i \in 1..Len(popped) : popped[i].score_counted

\* a pipe has been popped, its point counted
C19_Witness ==
    /\ Len(popped) = 1
    /\ popped[1].score_counted
    /\ score >= 1

\* C20: with no climb event and a player who does not leave the game paused,
\* the bird eventually reaches y >= WIN_HEIGHT - Bird.HEIGHT and done becomes
\* true.
C20_BirdFallsAndGameEnds ==
    <>(done /\ bird.y >= Px(WIN_HEIGHT - Bird_HEIGHT))

\* the game has ended with the bird at the window's bottom after some paused
\* iterations: more iterations have run than the fall takes
C20_Witness ==
    /\ done /\ bird.y >= Px(WIN_HEIGHT - Bird_HEIGHT)
    /\ frame_clock > 90
    /\ pc = "events"

====
